---- MODULE Spec2Model ----
(***************************************************************************)
(* Model of script.js: the hospital locator.                               *)
(*                                                                         *)
(*   haversine       great-circle distance (fixed-point arithmetic)        *)
(*   tryFetchJson    retry / backoff / endpoint fallback                   *)
(*   searchHospitals geocode -> Overpass query -> rank -> render           *)
(*                                                                         *)
(* JavaScript runs the handlers on one event loop: a handler runs without  *)
(* interruption from one await to the next.  The awaits of the program are *)
(* fetch(url), res.text() and wait(backoff); each action below is the code *)
(* that runs when one of them settles, up to the next await.               *)
(***************************************************************************)
EXTENDS Integers, Sequences, FiniteSets, TLC

(***************************************************************************)
(* Bounds of the model.                                                    *)
(***************************************************************************)
MaxSearches == 2      \* searchHospitals invocations in one behaviour
MaxElems    == 2      \* elements in one Overpass response
MaxUrls     == 2      \* endpoints handed to a stand-alone tryFetchJson call
MaxTries    == 3      \* tries handed to a stand-alone tryFetchJson call
MaxPlaceLen == 2      \* characters typed into the place input
MaxGrid     == 3      \* coordinates measured: -10 * MaxGrid .. 10 * MaxGrid degrees

(***************************************************************************)
(* Constants of the program.                                               *)
(***************************************************************************)
PI          == 31416  \* Math.PI, in units of 1/Scale
R           == 6371   \* earth radius, km
BaseBackoff == 500    \* ms
GeoTries    == 2
OvTries     == 3
MaxShow     == 30
Scale       == 100 * 100   \* fixed-point unit of the trigonometry below

(***************************************************************************)
(* JavaScript numbers: a finite value, NaN or +-Infinity.                  *)
(***************************************************************************)
Fin(v) == [k |-> "fin", v |-> v]
NaN    == [k |-> "nan", v |-> 0]
Inf(s) == [k |-> "inf", v |-> s]

IsNaN(x)    == x.k = "nan"
IsFinite(x) == x.k = "fin"

\* integer division that truncates toward zero, as the sign-symmetric
\* floating-point operations do
TDiv(a, b) == IF a >= 0 THEN a \div b ELSE -((-a) \div b)

RECURSIVE IsqrtIter(_, _, _)
IsqrtIter(n, lo, hi) ==
  IF lo >= hi THEN lo
  ELSE LET mid == (lo + hi + 1) \div 2
       IN IF mid * mid <= n THEN IsqrtIter(n, mid, hi)
                            ELSE IsqrtIter(n, lo, mid - 1)

\* Math.sqrt on a fixed-point value a (units of 1/Scale), a >= 0
SqrtS(a) == IsqrtIter(a * Scale, 0, 2 * Scale)

\* Math.sin, Math.cos: Taylor polynomials in Horner form, x in 1/Scale rad
SinS(x) ==
  LET x2 == TDiv(x * x, Scale)
      a3 == Scale - TDiv(x2, 42)
      a2 == Scale - TDiv(TDiv(x2 * a3, Scale), 20)
      a1 == Scale - TDiv(TDiv(x2 * a2, Scale), 6)
  IN TDiv(x * a1, Scale)

CosS(x) ==
  LET x2 == TDiv(x * x, Scale)
      a3 == Scale - TDiv(x2, 30)
      a2 == Scale - TDiv(TDiv(x2 * a3, Scale), 12)
  IN Scale - TDiv(TDiv(x2 * a2, Scale), 2)

\* atan on [0, 1]: r / (1 + 0.28125 r^2)
AtanUnit(r) ==
  TDiv(r * Scale, Scale + TDiv(28125 * TDiv(r * r, Scale), 100000))

\* Math.atan2(y, x) for y >= 0, x >= 0
Atan2S(y, x) ==
  IF y = 0 THEN 0
  ELSE IF y <= x THEN AtanUnit(TDiv(y * Scale, x))
  ELSE TDiv(PI, 2) - AtanUnit(TDiv(x * Scale, y))

toRad(d) == TDiv(d * PI, 180)

\* HaversineFin with Math.cos(toRad(lat1)) written twice
HaversineCosTwice(lat1, lon1, lat2, lon2) ==
  LET dLat == toRad(lat2 - lat1)
      dLon == toRad(lon2 - lon1)
      sLat == SinS(TDiv(dLat, 2))
      sLon == SinS(TDiv(dLon, 2))
      a    == TDiv(sLat * sLat, Scale)
              + TDiv(TDiv(CosS(toRad(lat1)) * CosS(toRad(lat1)), Scale)
                     * TDiv(sLon * sLon, Scale), Scale)
  IN IF a < 0 \/ a > Scale THEN NaN
     ELSE Fin(R * (2 * Atan2S(SqrtS(a), SqrtS(Scale - a))))

\* haversine on finite degrees; the result is km in units of 1/Scale
HaversineFin(lat1, lon1, lat2, lon2) ==
  LET dLat == toRad(lat2 - lat1)
      dLon == toRad(lon2 - lon1)
      sLat == SinS(TDiv(dLat, 2))
      sLon == SinS(TDiv(dLon, 2))
      a    == TDiv(sLat * sLat, Scale)
              + TDiv(TDiv(CosS(toRad(lat1)) * CosS(toRad(lat2)), Scale)
                     * TDiv(sLon * sLon, Scale), Scale)
  IN IF a < 0 \/ a > Scale THEN NaN
     ELSE Fin(R * (2 * Atan2S(SqrtS(a), SqrtS(Scale - a))))

\* haversine(lat1, lon1, lat2, lon2): a NaN argument gives NaN, and so does
\* an infinite one (Infinity - Infinity and Math.sin(Infinity) are NaN)
haversine(lat1, lon1, lat2, lon2) ==
  IF IsFinite(lat1) /\ IsFinite(lon1) /\ IsFinite(lat2) /\ IsFinite(lon2)
  THEN HaversineFin(lat1.v, lon1.v, lat2.v, lon2.v)
  ELSE NaN


(***************************************************************************)
(* Strings are sequences of one-character strings.                         *)
(***************************************************************************)
Space == " "
Chars == {Space, "a"}

RECURSIVE SeqsUpTo(_, _)
SeqsUpTo(S, n) ==
  IF n = 0 THEN {<<>>}
  ELSE LET shorter == SeqsUpTo(S, n - 1)
       IN shorter \cup {Append(q, x) : q \in {t \in shorter : Len(t) = n - 1}, x \in S}

RECURSIVE TrimStart(_)
TrimStart(s) ==
  IF s # <<>> /\ Head(s) = Space THEN TrimStart(Tail(s)) ELSE s

RECURSIVE TrimEnd(_)
TrimEnd(s) ==
  IF s # <<>> /\ s[Len(s)] = Space THEN TrimEnd(SubSeq(s, 1, Len(s) - 1)) ELSE s

\* Trim left out: placeInput.value || ''
TrimLeftOut(s) == s

\* String.prototype.trim
Trim(s) == TrimEnd(TrimStart(s))

DigitVal(c) ==
  CASE c = "0" -> 0 [] c = "1" -> 1 [] c = "2" -> 2 [] c = "3" -> 3
    [] c = "4" -> 4 [] c = "5" -> 5 [] c = "6" -> 6 [] c = "7" -> 7
    [] c = "8" -> 8 [] c = "9" -> 9 [] OTHER -> -1

InfinityChars == <<"I", "n", "f", "i", "n", "i", "t", "y">>

StartsWith(s, p) == Len(s) >= Len(p) /\ SubSeq(s, 1, Len(p)) = p

RECURSIVE DigitPrefix(_, _, _)
\* the value of the longest prefix of digits of s; seen: a digit was read
DigitPrefix(s, acc, seen) ==
  IF s # <<>> /\ DigitVal(Head(s)) >= 0
  THEN DigitPrefix(Tail(s), 10 * acc + DigitVal(Head(s)), TRUE)
  ELSE [seen |-> seen, v |-> acc]

\* parseFloat on a string: leading white space, a sign, then "Infinity" or
\* the longest numeric prefix; NaN when there is none (whole degrees only)
ParseFloatStr(s) ==
  LET t    == TrimStart(s)
      neg  == t # <<>> /\ Head(t) = "-"
      body == IF t # <<>> /\ Head(t) \in {"-", "+"} THEN Tail(t) ELSE t
      sgn  == IF neg THEN -1 ELSE 1
      d    == DigitPrefix(body, 0, FALSE)
  IN IF StartsWith(body, InfinityChars) THEN Inf(sgn)
     ELSE IF d.seen THEN Fin(sgn * d.v)
     ELSE NaN

(***************************************************************************)
(* Values a parsed JSON body holds where the program reads a coordinate or *)
(* a tag: undefined (no such property), a number or a string.              *)
(***************************************************************************)
Undefined == [t |-> "undefined", num |-> NaN, str |-> <<>>]
Num(x)    == [t |-> "number", num |-> x, str |-> <<>>]
Str(s)    == [t |-> "string", num |-> NaN, str |-> s]

\* parseFloat(v): v is converted to a string first
parseFloat(v) ==
  CASE v.t = "number" -> v.num
    [] v.t = "string" -> ParseFloatStr(v.str)
    [] OTHER          -> NaN

\* a value in a boolean context (v || ..., v && ...)
Truthy(v) ==
  CASE v.t = "number" -> ~IsNaN(v.num) /\ v.num # Fin(0)
    [] v.t = "string" -> v.str # <<>>
    [] OTHER          -> FALSE

(***************************************************************************)
(* What the servers send.                                                  *)
(*                                                                         *)
(* A response is its HTTP status; a body is JSON text or not, and JSON     *)
(* text parses to null, an object or an array.  An array holds geocoding   *)
(* candidates, an object may hold a property "elements".                   *)
(***************************************************************************)
Statuses == {200, 429}

\* Response.ok
Ok(status) == status \in 200..299

Candidate(lat, lon) == [nul |-> FALSE, lat |-> lat, lon |-> lon]
NullCandidate       == [nul |-> TRUE, lat |-> Undefined, lon |-> Undefined]

\* an element of the Overpass answer: direct lat/lon, or a center, and
\* tags.name; nul: the entry is the JSON value null
Element(lat, lon, hasCenter, clat, clon, name) ==
  [nul |-> FALSE, lat |-> lat, lon |-> lon, hasCenter |-> hasCenter,
   clat |-> clat, clon |-> clon, name |-> name]
NullElement ==
  [nul |-> TRUE, lat |-> Undefined, lon |-> Undefined, hasCenter |-> FALSE,
   clat |-> Undefined, clon |-> Undefined, name |-> Undefined]

NoElements         == [t |-> "undefined", list |-> <<>>]
ElementList(l)     == [t |-> "array", list |-> l]
ElementsNotAnArray == [t |-> "number", list |-> <<>>]   \* e.g. "elements": 5

JNull             == [t |-> "null", items |-> <<>>, elements |-> NoElements]
JObject(elements) == [t |-> "object", items |-> <<>>, elements |-> elements]
JArray(items)     == [t |-> "array", items |-> items, elements |-> NoElements]

JsonBody(val) == [json |-> TRUE, val |-> val]
HtmlBody      == [json |-> FALSE, val |-> JNull]

(***************************************************************************)
(* tryFetchJson(urls, opts, tries).                                        *)
(*                                                                         *)
(* A call is a frame: the loop variables url (ui, an index into urls) and  *)
(* attempt, lastErr, the response awaited for its text (res), and where    *)
(* the call stands (st): awaiting "fetch", "text" or "wait", or finished   *)
(* as "returned" or "thrown".  serial counts the fetches issued, count     *)
(* those per endpoint, waits lists the backoffs slept.  An Error object is *)
(* created afresh by every failing attempt: id is the serial number of the *)
(* attempt that created it.                                                *)
(***************************************************************************)
NoErr == [kind |-> "none", url |-> 0, status |-> 0, id |-> 0]
\* the TypeError a rejected fetch() or res.text() carries
NetworkError(id) == [kind |-> "Network", url |-> 0, status |-> 0, id |-> id]
\* new Error(`HTTP ${res.status} ${res.statusText}`)
HttpError(status, id) == [kind |-> "HTTP", url |-> 0, status |-> status, id |-> id]
\* the SyntaxError of JSON.parse
SyntaxError(id) == [kind |-> "Syntax", url |-> 0, status |-> 0, id |-> id]
\* new Error(`Non-JSON response from ${url} (status ${res.status}) ...`)
NonJsonError(url, status, id) ==
  [kind |-> "NonJSON", url |-> url, status |-> status, id |-> id]
\* new Error('All fetch attempts failed')
AllFailedError == [kind |-> "AllFailed", url |-> 0, status |-> 0, id |-> 0]

NoRet == [data |-> JNull, url |-> 0]

IdleFrame ==
  [n |-> 0, tries |-> 0, ui |-> 0, attempt |-> 0, lastErr |-> NoErr, res |-> 0,
   st |-> "idle", serial |-> 0, count |-> <<>>, waits |-> <<>>,
   ret |-> NoRet, err |-> NoErr]

\* await fetch(url, opts) is reached for the current url
IssueFetch(f) ==
  [f EXCEPT !.st = "fetch", !.res = 0, !.serial = @ + 1,
            !.count = [@ EXCEPT ![f.ui] = @ + 1]]

\* throw lastErr || new Error('All fetch attempts failed')
ThrowLast(f) ==
  [f EXCEPT !.st = "thrown",
            !.err = IF f.lastErr = NoErr THEN AllFailedError ELSE f.lastErr]

\* LoopHead with the inner bound off by one: attempt < tries - 1
LoopHeadShort(f) ==
  IF f.ui <= f.n /\ f.attempt < f.tries - 1 THEN IssueFetch(f)
  ELSE IF f.ui < f.n /\ f.tries > 0
       THEN IssueFetch([f EXCEPT !.ui = @ + 1, !.attempt = 0])
  ELSE ThrowLast(f)

\* LoopHead with the inner bound off by one the other way: attempt <= tries
LoopHeadLong(f) ==
  IF f.ui <= f.n /\ f.attempt <= f.tries THEN IssueFetch(f)
  ELSE IF f.ui < f.n /\ f.tries > 0
       THEN IssueFetch([f EXCEPT !.ui = @ + 1, !.attempt = 0])
  ELSE ThrowLast(f)

\* the loop headers: attempt < tries, then the next url of urls
LoopHead(f) ==
  IF f.ui <= f.n /\ f.attempt < f.tries THEN IssueFetch(f)
  ELSE IF f.ui < f.n /\ f.tries > 0
       THEN IssueFetch([f EXCEPT !.ui = @ + 1, !.attempt = 0])
  ELSE ThrowLast(f)

\* the call, up to its first await
EnterCall(n, tries) ==
  LoopHead([IdleFrame EXCEPT !.n = n, !.tries = tries, !.ui = 1,
                             !.count = [i \in 1..n |-> 0]])

RECURSIVE Pow2(_)
Pow2(k) == IF k = 0 THEN 1 ELSE 2 * Pow2(k - 1)

\* Backoff growing linearly: 500 * (attempt + 1)
BackoffLinear(attempt) == BaseBackoff * (attempt + 1)

\* const backoff = 500 * Math.pow(2, attempt)
Backoff(attempt) == BaseBackoff * Pow2(attempt)

\* CatchErr keeping the first error: lastErr = lastErr || err
CatchErrKeepFirst(f, err) ==
  [f EXCEPT !.lastErr = IF f.lastErr = NoErr THEN err ELSE f.lastErr,
            !.st = "wait", !.res = 0,
            !.waits = Append(@, Backoff(f.attempt))]

\* CatchErr waiting only where another attempt on the endpoint follows:
\* if (attempt < tries - 1) await wait(backoff)
CatchErrNoFinalWait(f, err) ==
  IF f.attempt < f.tries - 1
  THEN [f EXCEPT !.lastErr = err, !.st = "wait", !.res = 0,
                 !.waits = Append(@, Backoff(f.attempt))]
  ELSE LoopHead([f EXCEPT !.lastErr = err, !.res = 0, !.attempt = @ + 1])

\* catch (err): lastErr = err; await wait(500 * 2^attempt)
CatchErr(f, err) ==
  [f EXCEPT !.lastErr = err, !.st = "wait", !.res = 0,
            !.waits = Append(@, Backoff(f.attempt))]

\* catch (parseErr): rethrows as the non-JSON diagnostic, whatever was thrown
InnerCatch(f, parseErr) == NonJsonError(f.ui, f.res, f.serial)

\* the inner try: JSON.parse(text); if (!res.ok) throw ...; return { data, url }
\* Gives [thrown, err, data].
InnerTry(f, body) ==
  IF ~body.json
  THEN [thrown |-> TRUE, err |-> SyntaxError(f.serial), data |-> JNull]
  ELSE IF ~Ok(f.res)
  THEN [thrown |-> TRUE, err |-> HttpError(f.res, f.serial), data |-> JNull]
  ELSE [thrown |-> FALSE, err |-> NoErr, data |-> body.val]

\* fetch() rejected
FetchRejected(f) == CatchErr(f, NetworkError(f.serial))
\* fetch() resolved with a response: await res.text()
FetchResolved(f, status) == [f EXCEPT !.res = status, !.st = "text"]
\* res.text() rejected
TextRejected(f) == CatchErr(f, NetworkError(f.serial))
\* TextResolved keeping the answer and going on with the loop instead of
\* returning it
TextResolvedNoReturn(f, body) ==
  LET r == InnerTry(f, body)
  IN IF r.thrown THEN CatchErr(f, InnerCatch(f, r.err))
     ELSE LoopHead([f EXCEPT !.res = 0, !.attempt = @ + 1,
                             !.ret = [data |-> r.data, url |-> f.ui]])

\* res.text() resolved
TextResolved(f, body) ==
  LET r == InnerTry(f, body)
  IN IF r.thrown THEN CatchErr(f, InnerCatch(f, r.err))
     ELSE [f EXCEPT !.st = "returned", !.res = 0,
                    !.ret = [data |-> r.data, url |-> f.ui]]
\* wait(backoff) elapsed: attempt++, back to the loop headers
WaitElapsed(f) == LoopHead([f EXCEPT !.attempt = @ + 1])

(***************************************************************************)
(* searchHospitals: ranking and rendering of the Overpass elements.        *)
(***************************************************************************)
Min(a, b) == IF a < b THEN a ELSE b

\* elements.map(el => ({ el, lat2: parseFloat(..), lon2: parseFloat(..) }))
Resolve(el) ==
  LET lat2 == IF el.lat.t # "undefined" THEN el.lat
              ELSE IF el.hasCenter THEN el.clat ELSE Undefined
      lon2 == IF el.lon.t # "undefined" THEN el.lon
              ELSE IF el.hasCenter THEN el.clon ELSE Undefined
  IN [el |-> el, lat2 |-> parseFloat(lat2), lon2 |-> parseFloat(lon2),
      distance |-> NaN]

\* .filter(i => !Number.isNaN(i.lat2) && !Number.isNaN(i.lon2))
Keep(i) == ~IsNaN(i.lat2) /\ ~IsNaN(i.lon2)

RECURSIVE FilterSeq(_)
FilterSeq(items) ==
  IF items = <<>> THEN <<>>
  ELSE IF Keep(Head(items)) THEN <<Head(items)>> \o FilterSeq(Tail(items))
  ELSE FilterSeq(Tail(items))

\* items.forEach(i => i.distance = haversine(lat, lon, i.lat2, i.lon2))
WithDistance(items, lat, lon) ==
  [k \in 1..Len(items) |->
     [items[k] EXCEPT !.distance = haversine(lat, lon, items[k].lat2, items[k].lon2)]]

\* the comparator (a, b) => a.distance - b.distance, as sort reads it:
\* negative, zero or positive, and NaN counts as zero
Cmp(a, b) ==
  IF ~IsFinite(a.distance) \/ ~IsFinite(b.distance) THEN 0
  ELSE IF a.distance.v < b.distance.v THEN -1
  ELSE IF a.distance.v > b.distance.v THEN 1
  ELSE 0

\* a consistent comparator orders the items; sort's result is defined by
\* the language only for one
Consistent(items) ==
  \A a, b, c \in {items[k] : k \in 1..Len(items)} :
     /\ (Cmp(a, b) = 0 /\ Cmp(b, c) = 0 => Cmp(a, c) = 0)
     /\ (Cmp(a, b) < 0 /\ Cmp(b, c) <= 0 => Cmp(a, c) < 0)
     /\ (Cmp(a, b) <= 0 /\ Cmp(b, c) < 0 => Cmp(a, c) < 0)

RECURSIVE InsertSorted(_, _)
\* x goes after every item that does not compare greater (stable)
InsertSorted(sorted, x) ==
  IF sorted = <<>> THEN <<x>>
  ELSE IF Cmp(Head(sorted), x) <= 0
       THEN <<Head(sorted)>> \o InsertSorted(Tail(sorted), x)
  ELSE <<x>> \o sorted

RECURSIVE StableSort(_)
StableSort(items) ==
  IF items = <<>> THEN <<>>
  ELSE InsertSorted(StableSort(SubSeq(items, 1, Len(items) - 1)), items[Len(items)])

Count(items, x) == Cardinality({k \in 1..Len(items) : items[k] = x})

InsertAt(q, i, x) == SubSeq(q, 1, i - 1) \o <<x>> \o SubSeq(q, i, Len(q))

RECURSIVE InsertAll(_, _)
\* the sequences got from those of seqs by putting the items of others in,
\* each at any place
InsertAll(others, seqs) ==
  IF others = <<>> THEN seqs
  ELSE InsertAll(Tail(others),
                 UNION {{InsertAt(q, i, Head(others)) : i \in 1..(Len(q) + 1)}
                          : q \in seqs})

\* every order of the items: the copies of the most frequent item, with
\* the other items put in at any places
Arrangements(items) ==
  IF items = <<>> THEN {<<>>}
  ELSE LET range  == {items[k] : k \in 1..Len(items)}
           common == CHOOSE x \in range :
                       \A y \in range : Count(items, x) >= Count(items, y)
           others == SelectSeq(items, LAMBDA y : y # common)
       IN InsertAll(others, {[k \in 1..Count(items, common) |-> common]})

\* items.sort((a,b) => a.distance - b.distance): the stable sort for a
\* consistent comparator, any order of the items otherwise
SortResults(items) ==
  IF Consistent(items) THEN {StableSort(items)} ELSE Arrangements(items)

\* the card the loop body appends for an item; by: the invocation
Card(by, it) ==
  [by |-> by, lat2 |-> it.lat2, lon2 |-> it.lon2, distance |-> it.distance]

\* the loop body throws where escapeHtml(name) is handed a truthy value
\* that is no string (s.replace is not a function)
BodyThrows(it) == Truthy(it.el.name) /\ it.el.name.t # "string"

RECURSIVE FirstThrow(_, _)
\* index of the first item of toShow whose loop body throws, or Len + 1
FirstThrow(toShow, k) ==
  IF k > Len(toShow) THEN k
  ELSE IF BodyThrows(toShow[k]) THEN k
  ELSE FirstThrow(toShow, k + 1)

\* hospitalJson.elements || []
ElementsOf(hospitalJson) ==
  IF hospitalJson.elements.t = "undefined" THEN ElementList(<<>>)
  ELSE hospitalJson.elements

(***************************************************************************)
(* The try blocks of searchHospitals: where a throw lands.                 *)
(***************************************************************************)
\* Handler were the outer try to enclose the two calls only
HandlerCallsOnly(site) ==
  CASE site = "overpassFetch" -> "inner"
    [] site = "geoFetch" -> "outer"
    [] OTHER -> "none"

\* Handler without the inner try around the Overpass call
HandlerOuterOnly(site) ==
  CASE site \in {"overpassFetch", "geoFetch", "candidate", "elements", "render"}
         -> "outer"
    [] OTHER -> "none"

\* the handler that catches a throw from a place of searchHospitals
Handler(site) ==
  CASE site = "overpassFetch" -> "inner"   \* try ... catch (err), the inner one
    [] site \in {"geoFetch", "candidate", "elements", "render"} -> "outer"
    [] OTHER -> "none"

\* the status text a handler leaves, and how the invocation is classified
HandlerText(h) ==
  IF h = "inner" THEN "FetchFailed" ELSE "ErrorOccurred"
HandlerOutcome(h) ==
  IF h = "inner" THEN "GeodataUnavailable" ELSE "UnexpectedFailure"

(***************************************************************************)
(* The pools the servers' answers are drawn from.                          *)
(***************************************************************************)
Digits(a, b) == <<a, b>>

NearElement    == Element(Num(Fin(10)), Num(Fin(70)), FALSE, Undefined, Undefined,
                          Str(<<"a">>))
FarElement     == Element(Undefined, Undefined, TRUE, Str(Digits("3", "0")),
                          Str(Digits("8", "0")), Undefined)
NoCoordElement == Element(Undefined, Undefined, FALSE, Undefined, Undefined,
                          Undefined)
InfElement     == Element(Str(InfinityChars), Num(Fin(80)), FALSE, Undefined,
                          Undefined, Undefined)
NumNameElement == Element(Num(Fin(20)), Num(Fin(80)), FALSE, Undefined, Undefined,
                          Num(Fin(5)))

RichElements == {NearElement, FarElement, NoCoordElement, InfElement,
                 NumNameElement, NullElement}
LeanElements == {NearElement, NumNameElement}

GoodCandidate  == Candidate(Str(Digits("1", "0")), Str(Digits("8", "0")))
EmptyCandidate == Candidate(Undefined, Undefined)

RichCandidates == {GoodCandidate, EmptyCandidate, NullCandidate}
LeanCandidates == {GoodCandidate}

\* the bodies a server may answer with
Bodies(elems, maxLen, cands) ==
  {HtmlBody, JsonBody(JNull), JsonBody(JArray(<<>>)),
   JsonBody(JObject(NoElements)), JsonBody(JObject(ElementsNotAnArray))}
  \cup {JsonBody(JArray(<<c>>)) : c \in cands}
  \cup {JsonBody(JObject(ElementList(l))) : l \in SeqsUpTo(elems, maxLen)}

RichBodies == Bodies(RichElements, MaxElems, RichCandidates)
LeanBodies == Bodies(LeanElements, MaxElems, LeanCandidates)

\* element lists about as long as slice(0, 30) keeps: one element short of
\* it in copies of one element, and up to MaxElems others before or after
Fill(el, k) == [i \in 1..k |-> el]

LongLists ==
  LET few  == SeqsUpTo({FarElement, InfElement}, MaxElems)
      fill == Fill(NearElement, MaxShow - 1)
  IN {p \o fill : p \in few} \cup {fill \o p : p \in few}

LongBodies ==
  {HtmlBody, JsonBody(JArray(<<GoodCandidate>>))}
  \cup {JsonBody(JObject(ElementList(l))) : l \in LongLists}

(***************************************************************************)
(* State.                                                                  *)
(***************************************************************************)
VARIABLES
  statusP,     \* statusP.textContent, and the invocation that wrote it (by)
  resultsDiv,  \* the cards of the results area, in order
  omitted,     \* of the cards shown: the ranked items slice(0, 30) left out
  started,     \* searchHospitals invocations so far; they are numbered 1, 2, ..
  inv,         \* per invocation: where it stands and what it has done
  fr,          \* per invocation: the frame of its tryFetchJson call
  call,        \* the frame of a tryFetchJson call made on its own
  log,         \* of that call: per attempt settled, its url and whether the
               \* server answered it with JSON text and a 2xx status (good)
  lastSettle,  \* of that call: how the latest attempt settled
  dist         \* a haversine measurement made on its own

vars == <<statusP, resultsDiv, omitted, started, inv, fr, call, log, lastSettle,
          dist>>

Searches == 1..MaxSearches

Status(text, by, n, m) == [text |-> text, by |-> by, n |-> n, m |-> m]

\* pc: "idle", "geo" (in the geocoding call), "overpass" (in the Overpass
\* call), "done" (returned) or "rejected" (its promise rejected).
\* lat, lon: the search origin.  outcome: how the invocation ended.
\* asked: the services it has sent a request to.  cards: the number of
\* cards it has appended.  input: what placeInput.value was ("empty",
\* "blank" or "text").  geocoded: what the geocoding call returned
\* ("notArray", "emptyArray" or "candidates").
IdleInv ==
  [pc |-> "idle", lat |-> NaN, lon |-> NaN, outcome |-> "none",
   asked |-> {}, cards |-> 0, input |-> "none", geocoded |-> "none"]

InputClass(value) ==
  IF Len(value) = 0 THEN "empty"
  ELSE IF \A k \in 1..Len(value) : value[k] = Space THEN "blank"
  ELSE "text"

ShapeClass(json) ==
  IF json.t # "array" THEN "notArray"
  ELSE IF json.items = <<>> THEN "emptyArray"
  ELSE "candidates"

\* the service a call has sent a request to, if it has sent one
Asked(f, service) == IF f.serial > 0 THEN {service} ELSE {}

\* no measurement asked for; one asked for, from a to b
NoDist == [st |-> "none", a |-> <<NaN, NaN>>, b |-> <<NaN, NaN>>,
           ab |-> NaN, ba |-> NaN, aa |-> NaN]
AskDist(a, b) == [NoDist EXCEPT !.st = "asked", !.a = a, !.b = b]

Init ==
  /\ statusP = Status("", 0, 0, 0)
  /\ resultsDiv = <<>>
  /\ omitted = <<>>
  /\ started = 0
  /\ inv = [s \in Searches |-> IdleInv]
  /\ fr = [s \in Searches |-> IdleFrame]
  /\ call = IdleFrame
  /\ log = <<>>
  /\ lastSettle = "none"
  /\ dist = NoDist

(***************************************************************************)
(* searchHospitals, from one await to the next.                            *)
(*                                                                         *)
(* An end of the invocation is a record: write (statusP is assigned), text *)
(* n, m (the status), wipe (resultsDiv.innerHTML = ''), cards (appended),  *)
(* cut (the items slice(0, 30) left out), pc ("done" or "rejected") and    *)
(* outcome.                                                                *)
(***************************************************************************)
End(text, n, m, wipe, cards, outcome) ==
  [write |-> TRUE, text |-> text, n |-> n, m |-> m, wipe |-> wipe,
   cards |-> cards, cut |-> <<>>, pc |-> "done", outcome |-> outcome]

\* a throw at a place of searchHospitals, after before (an end so far) has
\* been done: the handler's status text, or the rejection of the promise
Thrown(site, before) ==
  IF Handler(site) = "none"
  THEN [before EXCEPT !.pc = "rejected", !.outcome = "none"]
  ELSE [before EXCEPT !.write = TRUE, !.text = HandlerText(Handler(site)),
                      !.n = 0, !.m = 0,
                      !.outcome = HandlerOutcome(Handler(site))]

Nothing == [write |-> FALSE, text |-> "", n |-> 0, m |-> 0, wipe |-> FALSE,
            cards |-> <<>>, cut |-> <<>>, pc |-> "done", outcome |-> "none"]

\* the items of sorted that slice(0, 30) leaves out, as cards
CutOff(s, sorted) ==
  [i \in 1..(Len(sorted) - Min(MaxShow, Len(sorted))) |->
     Card(s, sorted[MaxShow + i])]

\* RenderEnd without resultsDiv.innerHTML = '' before the loop
RenderEndNoWipe(s, elements, sorted) ==
  LET toShow == SubSeq(sorted, 1, Min(MaxShow, Len(sorted)))
      k      == FirstThrow(toShow, 1)
      cards  == [i \in 1..(k - 1) |-> Card(s, toShow[i])]
      found  == [End("Found", Len(elements), Len(toShow), FALSE, cards, "Rendered")
                   EXCEPT !.cut = CutOff(s, sorted)]
  IN IF k <= Len(toShow) THEN Thrown("render", found) ELSE found

\* lines 142-183 for one result of the sort
RenderEnd(s, elements, sorted) ==
  LET toShow == SubSeq(sorted, 1, Min(MaxShow, Len(sorted)))
      k      == FirstThrow(toShow, 1)
      cards  == [i \in 1..(k - 1) |-> Card(s, toShow[i])]
      found  == [End("Found", Len(elements), Len(toShow), TRUE, cards, "Rendered")
                   EXCEPT !.cut = CutOff(s, sorted)]
  IN IF k <= Len(toShow) THEN Thrown("render", found) ELSE found

\* lines 120-183: the ends of an invocation whose Overpass call returned
OverpassEnds(s, hospitalJson, lat, lon) ==
  IF hospitalJson.t = "null" THEN {Thrown("elements", Nothing)}
  ELSE
    LET elements == ElementsOf(hospitalJson)
    IN IF elements.t # "array" THEN {Thrown("elements", Nothing)}
       ELSE IF Len(elements.list) = 0
       THEN {End("NoneFound", 0, 0, FALSE, <<>>, "NoResultsInRadius")}
       ELSE IF \E k \in 1..Len(elements.list) : elements.list[k].nul
       THEN {Thrown("elements", Nothing)}
       ELSE
         LET mapped == [k \in 1..Len(elements.list) |-> Resolve(elements.list[k])]
             items  == WithDistance(FilterSeq(mapped), lat, lon)
         IN {RenderEnd(s, elements.list, sorted) : sorted \in SortResults(items)}

\* the invocation s ends; geocoded: what its geocoding call returned, when
\* that call is the one that has just ended
Finish(s, e, geocoded) ==
  /\ statusP' = IF e.write THEN Status(e.text, s, e.n, e.m) ELSE statusP
  /\ resultsDiv' = (IF e.wipe THEN <<>> ELSE resultsDiv) \o e.cards
  /\ omitted' = IF e.wipe THEN e.cut ELSE omitted
  /\ inv' = [inv EXCEPT ![s] = [@ EXCEPT !.pc = e.pc, !.outcome = e.outcome,
                                         !.lat = NaN, !.lon = NaN,
                                         !.geocoded =
                                            IF geocoded = "none" THEN @
                                            ELSE geocoded,
                                         !.cards = @ + Len(e.cards)]]
  /\ fr' = [fr EXCEPT ![s] = IdleFrame]

\* NotFound without the Array.isArray test: geoData.length === 0
NotFoundLengthOnly(geoData) == geoData.t = "array" /\ Len(geoData.items) = 0

\* !Array.isArray(geoData) || geoData.length === 0
NotFound(geoData) == geoData.t # "array" \/ Len(geoData.items) = 0

\* geoData[0].lat: reading a property of null or undefined throws
CandidateThrows(geoData) ==
  geoData.t # "array" \/ Len(geoData.items) = 0 \/ geoData.items[1].nul

\* lines 75-111: the geocoding call of s has ended as the frame f
AfterGeocoding(s, f) ==
  IF f.st = "thrown"
  THEN Finish(s, Thrown("geoFetch", Nothing), "none")
  ELSE
    LET geoData == f.ret.data
    IN IF NotFound(geoData)
       THEN Finish(s, End("PlaceNotFound", 0, 0, FALSE, <<>>, "PlaceNotFound"),
                   ShapeClass(geoData))
       ELSE IF CandidateThrows(geoData)
       THEN Finish(s, Thrown("candidate", Nothing), ShapeClass(geoData))
       ELSE /\ statusP' = Status("Searching", s, 0, 0)
            /\ inv' = [inv EXCEPT ![s] =
                         [@ EXCEPT !.pc = "overpass",
                                   !.geocoded = ShapeClass(geoData),
                                   !.lat = parseFloat(geoData.items[1].lat),
                                   !.lon = parseFloat(geoData.items[1].lon),
                                   !.asked = @ \cup Asked(EnterCall(2, OvTries),
                                                          "overpass")]]
            /\ fr' = [fr EXCEPT ![s] = EnterCall(2, OvTries)]
            /\ UNCHANGED <<resultsDiv, omitted>>

\* lines 111-183: the Overpass call of s has ended as the frame f
AfterOverpass(s, f) ==
  IF f.st = "thrown"
  THEN Finish(s, Thrown("overpassFetch", Nothing), "none")
  ELSE \E e \in OverpassEnds(s, f.ret.data, inv[s].lat, inv[s].lon) :
         Finish(s, e, "none")

\* the tryFetchJson call of s has moved to the frame f
Resume(s, f) ==
  IF f.st \in {"returned", "thrown"}
  THEN IF inv[s].pc = "geo" THEN AfterGeocoding(s, f) ELSE AfterOverpass(s, f)
  ELSE /\ fr' = [fr EXCEPT ![s] = f]
       /\ UNCHANGED <<statusP, resultsDiv, omitted, inv>>

\* lines 57-75: searchHospitals() is called with placeInput.value = value,
\* the invocations so far being fewer than limit
SearchStart(value, limit) ==
  /\ started < limit
  /\ started' = started + 1
  /\ LET s     == started + 1
         place == Trim(value)
     IN /\ resultsDiv' = <<>>
        /\ omitted' = <<>>
        /\ IF place = <<>>
           THEN /\ statusP' = Status("PleaseType", s, 0, 0)
                /\ inv' = [inv EXCEPT ![s] =
                             [@ EXCEPT !.pc = "done", !.outcome = "InvalidInput",
                                       !.input = InputClass(value)]]
                /\ UNCHANGED fr
           ELSE /\ statusP' = Status("Geocoding", s, 0, 0)
                /\ inv' = [inv EXCEPT ![s] =
                             [@ EXCEPT !.pc = "geo",
                                       !.input = InputClass(value),
                                       !.asked = Asked(EnterCall(2, GeoTries),
                                                       "geocoding")]]
                /\ fr' = [fr EXCEPT ![s] = EnterCall(2, GeoTries)]
  /\ UNCHANGED <<call, log, lastSettle, dist>>

PlaceValues == SeqsUpTo(Chars, MaxPlaceLen)
Keys == {"Enter", "a"}

\* searchBtn 'click'
Click(limit) == \E value \in PlaceValues : SearchStart(value, limit)

\* placeInput 'keydown'
KeyDown(limit) ==
  \E key \in Keys, value \in PlaceValues :
     key = "Enter" /\ SearchStart(value, limit)

InFlight(s, st) == inv[s].pc \in {"geo", "overpass"} /\ fr[s].st = st

\* the fetch() of s settles
FetchSettles(s) ==
  /\ InFlight(s, "fetch")
  /\ \/ Resume(s, FetchRejected(fr[s]))
     \/ \E status \in Statuses : Resume(s, FetchResolved(fr[s], status))
  /\ UNCHANGED <<started, call, log, lastSettle, dist>>

\* the res.text() of s settles
TextSettles(s, bodies) ==
  /\ InFlight(s, "text")
  /\ \/ Resume(s, TextRejected(fr[s]))
     \/ \E body \in bodies : Resume(s, TextResolved(fr[s], body))
  /\ UNCHANGED <<started, call, log, lastSettle, dist>>

\* the wait(backoff) of s elapses
WaitElapses(s) ==
  /\ InFlight(s, "wait")
  /\ Resume(s, WaitElapsed(fr[s]))
  /\ UNCHANGED <<started, call, log, lastSettle, dist>>

\* overlapping invocations
Next ==
  \/ Click(MaxSearches)
  \/ KeyDown(MaxSearches)
  \/ \E s \in Searches : FetchSettles(s)
  \/ \E s \in Searches : TextSettles(s, LeanBodies)
  \/ \E s \in Searches : WaitElapses(s)

Spec == Init /\ [][Next]_vars

\* one invocation, the servers' answers in full variety
NextOne ==
  \/ Click(1)
  \/ KeyDown(1)
  \/ \E s \in Searches : FetchSettles(s)
  \/ \E s \in Searches : TextSettles(s, RichBodies)
  \/ \E s \in Searches : WaitElapses(s)

SpecOne == Init /\ [][NextOne]_vars

\* one invocation, the Overpass answers long enough for slice(0, 30) to cut
NextRank ==
  \/ Click(1)
  \/ KeyDown(1)
  \/ \E s \in Searches : FetchSettles(s)
  \/ \E s \in Searches : TextSettles(s, LongBodies)
  \/ \E s \in Searches : WaitElapses(s)

SpecRank == Init /\ [][NextRank]_vars

(***************************************************************************)
(* A tryFetchJson call on its own: any list of urls, any tries.            *)
(***************************************************************************)
searchVars == <<statusP, resultsDiv, omitted, started, inv, fr>>

CallBodies == {HtmlBody, JsonBody(JNull), JsonBody(JArray(<<GoodCandidate>>))}

\* how the server answered: the body, under the status of the response
Answer(status, body) ==
  IF ~body.json THEN "nonJSON"
  ELSE IF Ok(status) THEN "jsonOk" ELSE "jsonNon2xx"

Logged(good) == Append(log, [url |-> call.ui, good |-> good])

\* tryFetchJson(urls, opts, tries) is called, urls holding n endpoints
CallStart(n, tries) ==
  /\ call.st = "idle"
  /\ call' = EnterCall(n, tries)
  /\ UNCHANGED <<log, lastSettle, searchVars, dist>>

CallFetchSettles ==
  /\ call.st = "fetch"
  /\ \/ /\ call' = FetchRejected(call)
        /\ log' = Logged(FALSE)
        /\ lastSettle' = "fetchRejected"
     \/ /\ \E status \in Statuses : call' = FetchResolved(call, status)
        /\ UNCHANGED <<log, lastSettle>>
  /\ UNCHANGED <<searchVars, dist>>

CallTextSettles ==
  /\ call.st = "text"
  /\ \/ /\ call' = TextRejected(call)
        /\ log' = Logged(FALSE)
        /\ lastSettle' = "textRejected"
     \/ \E body \in CallBodies :
           /\ call' = TextResolved(call, body)
           /\ log' = Logged(Answer(call.res, body) = "jsonOk")
           /\ lastSettle' = Answer(call.res, body)
  /\ UNCHANGED <<searchVars, dist>>

CallWaitElapses ==
  /\ call.st = "wait"
  /\ call' = WaitElapsed(call)
  /\ UNCHANGED <<log, lastSettle, searchVars, dist>>

NextFetch ==
  \/ \E n \in 0..MaxUrls, tries \in 0..MaxTries : CallStart(n, tries)
  \/ CallFetchSettles
  \/ CallTextSettles
  \/ CallWaitElapses

SpecFetch == Init /\ [][NextFetch]_vars

\* the same call where every fetch(), res.text() and wait() pending does
\* settle: the browser answers or fails a request, and a timer fires
SpecFetchFair ==
  /\ SpecFetch
  /\ WF_vars(CallFetchSettles)
  /\ WF_vars(CallTextSettles)
  /\ WF_vars(CallWaitElapses)

(***************************************************************************)
(* haversine on its own: any two points of a grid of whole degrees.        *)
(***************************************************************************)
Grid == {Fin(10 * k) : k \in (-MaxGrid)..MaxGrid}

InitHav ==
  /\ statusP = Status("", 0, 0, 0)
  /\ resultsDiv = <<>>
  /\ omitted = <<>>
  /\ started = 0
  /\ inv = [s \in Searches |-> IdleInv]
  /\ fr = [s \in Searches |-> IdleFrame]
  /\ call = IdleFrame
  /\ log = <<>>
  /\ lastSettle = "none"
  /\ \E lat1, lon1, lat2, lon2 \in Grid :
        dist = AskDist(<<lat1, lon1>>, <<lat2, lon2>>)

\* haversine is called from a to b, from b to a and from a to a
Measure ==
  /\ dist.st = "asked"
  /\ dist' = [dist EXCEPT
                 !.st = "done",
                 !.ab = haversine(dist.a[1], dist.a[2], dist.b[1], dist.b[2]),
                 !.ba = haversine(dist.b[1], dist.b[2], dist.a[1], dist.a[2]),
                 !.aa = haversine(dist.a[1], dist.a[2], dist.a[1], dist.a[2])]
  /\ UNCHANGED <<searchVars, call, log, lastSettle>>

NextHav == Measure

SpecHav == InitHav /\ [][NextHav]_vars

(***************************************************************************)
(* Properties.                                                             *)
(***************************************************************************)
Ended(s) == inv[s].pc \in {"done", "rejected"}

\* C1 (Spec): once every invocation has ended, the status text and every
\* card of the results area are those written by the invocation started
\* last.
C1_LatestSearchShown ==
  (started >= 2 /\ \A s \in 1..started : Ended(s))
    => /\ statusP.by = started
       /\ \A k \in 1..Len(resultsDiv) : resultsDiv[k].by = started

AttemptsOn(u) == Cardinality({k \in 1..Len(log) : log[k].url = u})

\* C2 (SpecFetch): the attempts go through the endpoints in list order, an
\* endpoint is left only after exactly tries attempts on it, no attempt
\* follows one the server answered well, and the call returns exactly then,
\* with the url of that attempt.
C2_FirstGoodEndpoint ==
  /\ \A k \in 1..(Len(log) - 1) : log[k].url <= log[k + 1].url /\ ~log[k].good
  /\ \A u \in 1..call.n :
       (\E k \in 1..Len(log) : log[k].url > u) => AttemptsOn(u) = call.tries
  /\ \A u \in 1..call.n : AttemptsOn(u) <= call.tries
  /\ call.serial = Len(log) + (IF call.st \in {"fetch", "text"} THEN 1 ELSE 0)
  /\ call.st = "returned"
       <=> (log # <<>> /\ log[Len(log)].good)
  /\ call.st = "returned" => call.ret.url = log[Len(log)].url

\* the first of two endpoints fails three times of three, the second
\* answers well at once
C2_Witness ==
  /\ call.st = "returned" /\ call.n = 2 /\ call.tries = 3
  /\ call.ret.url = 2
  /\ Len(log) = 4 /\ AttemptsOn(1) = 3

\* C3 (SpecFetch): a call that throws has made exactly n * tries attempts,
\* all of them failed, and throws the error of the last of them (the one
\* error made for no attempt where there was none).
C3_ThrowsLastError ==
  call.st = "thrown" =>
    /\ Len(log) = call.n * call.tries
    /\ call.serial = call.n * call.tries
    /\ \A k \in 1..Len(log) : ~log[k].good
    /\ IF Len(log) = 0 THEN call.err = AllFailedError
       ELSE /\ call.err.id = Len(log)
            /\ call.err.kind = "Network"
                 <=> lastSettle \in {"fetchRejected", "textRejected"}

\* six attempts have failed, the last by a rejected fetch, an earlier one
\* otherwise
C3_Witness ==
  /\ call.st = "thrown" /\ call.n = 2 /\ call.tries = 3
  /\ Len(log) = 6
  /\ call.err.kind = "Network"

\* C4 (SpecFetch): after an attempt answered with JSON text under a status
\* that is not 2xx, the error recorded is the HTTP-status error, with the
\* status code.
C4_HttpStatusError ==
  lastSettle = "jsonNon2xx"
    => call.lastErr.kind = "HTTP" /\ call.lastErr.status \notin 200..299

\* C5 (SpecOne): the total the "Found N" status reports is the number of
\* elements retained by the coordinate filter; where fewer than MaxShow are
\* retained, that is the number shown.
C5_TotalCountsRetained ==
  (statusP.text = "Found" /\ statusP.m < MaxShow) => statusP.n = statusP.m

\* C6 (SpecOne): the status is never "Found N; showing nearest 0".
C6_NoEmptySuccess ==
  ~(statusP.text = "Found" /\ statusP.m = 0)

\* C7 (SpecOne): an invocation that found the place input empty or blank
\* has ended as InvalidInput with the 'Please type' status, has made no
\* tryFetchJson call and has sent no request to either service.
C7_BlankInputNoRequest ==
  \A s \in Searches :
    inv[s].input \in {"empty", "blank"} =>
      /\ inv[s].pc = "done" /\ inv[s].outcome = "InvalidInput"
      /\ inv[s].asked = {} /\ fr[s] = IdleFrame
      /\ statusP.by = s => statusP.text = "PleaseType"

C7_Witness ==
  \E s \in Searches : inv[s].input = "blank" /\ inv[s].outcome = "InvalidInput"

Outcomes ==
  {"InvalidInput", "PlaceNotFound", "GeodataUnavailable", "NoResultsInRadius",
   "UnexpectedFailure", "Rendered"}

OutcomeText(o) ==
  CASE o = "InvalidInput"       -> "PleaseType"
    [] o = "PlaceNotFound"      -> "PlaceNotFound"
    [] o = "GeodataUnavailable" -> "FetchFailed"
    [] o = "NoResultsInRadius"  -> "NoneFound"
    [] o = "UnexpectedFailure"  -> "ErrorOccurred"
    [] o = "Rendered"           -> "Found"
    [] OTHER                    -> "none"

\* C8 (SpecOne): no invocation ends with its promise rejected; one that is
\* under way is awaiting a fetch, a body or a backoff and has no outcome
\* yet; one that has ended has one of the six outcomes and has left the
\* status text of that outcome.
C8_ClassifiedOutcome ==
  \A s \in Searches :
    /\ inv[s].pc # "rejected"
    /\ inv[s].pc = "idle" => inv[s].outcome = "none"
    /\ inv[s].pc \in {"geo", "overpass"} =>
         inv[s].outcome = "none" /\ fr[s].st \in {"fetch", "text", "wait"}
    /\ inv[s].pc = "done" =>
         /\ inv[s].outcome \in Outcomes
         /\ statusP.by = s => statusP.text = OutcomeText(inv[s].outcome)

\* an exception after the Overpass call returned: a malformed answer or a
\* throw while rendering
C8_Witness ==
  \E s \in Searches :
    /\ inv[s].pc = "done" /\ inv[s].outcome = "UnexpectedFailure"
    /\ "overpass" \in inv[s].asked

\* C9 (SpecOne): an invocation whose geocoding call returned anything but a
\* non-empty array has ended as PlaceNotFound, with that status text, and
\* has sent no request to the Overpass service.
C9_PlaceNotFound ==
  \A s \in Searches :
    inv[s].geocoded \in {"notArray", "emptyArray"} =>
      /\ inv[s].pc = "done" /\ inv[s].outcome = "PlaceNotFound"
      /\ "overpass" \notin inv[s].asked
      /\ statusP.by = s => statusP.text = "PlaceNotFound"

C9_Witness ==
  \E s \in Searches :
    inv[s].geocoded = "notArray" /\ inv[s].outcome = "PlaceNotFound"

\* every Overpass endpoint has been tried OvTries times and the last
\* attempt has failed too
OverpassExhausted(s) ==
  /\ inv[s].pc = "overpass" /\ fr[s].st = "wait"
  /\ \A u \in 1..fr[s].n : fr[s].count[u] = OvTries

\* C10 (SpecOne): the step an invocation takes once its Overpass endpoints
\* are exhausted ends it as GeodataUnavailable with the 'Failed to fetch'
\* status, and appends no card.
C10_GeodataUnavailable ==
  [][\A s \in Searches :
       (OverpassExhausted(s) /\ fr'[s] # fr[s]) =>
          /\ inv'[s].pc = "done" /\ inv'[s].outcome = "GeodataUnavailable"
          /\ statusP' = Status("FetchFailed", s, 0, 0)
          /\ inv'[s].cards = 0 /\ resultsDiv' = resultsDiv]_vars

C10_Witness ==
  \E s \in Searches :
    /\ inv[s].outcome = "GeodataUnavailable" /\ inv[s].cards = 0
    /\ statusP = Status("FetchFailed", s, 0, 0)

\* x <= y and x < y on JavaScript numbers: false where either is NaN
LessEq(x, y) == IsFinite(x) /\ IsFinite(y) /\ x.v <= y.v
Nearer(x, y) == IsFinite(x) /\ IsFinite(y) /\ x.v < y.v

\* C11 (SpecRank): under the 'Found' status, of every two adjacent cards the
\* earlier one's distance is less than or equal to the later one's.
C11_AscendingDistance ==
  statusP.text = "Found" =>
    \A k \in 1..(Len(resultsDiv) - 1) :
       LessEq(resultsDiv[k].distance, resultsDiv[k + 1].distance)

\* C12 (SpecRank): under the 'Found' status the cards are min(30, retained)
\* in number, none of the ranked items left out is nearer than an item
\* shown, and the total reported is not below the number retained.
C12_NearestShown ==
  statusP.text = "Found" =>
    /\ Len(resultsDiv) = Min(MaxShow, Len(resultsDiv) + Len(omitted))
    /\ statusP.m = Len(resultsDiv)
    /\ statusP.n >= Len(resultsDiv) + Len(omitted)
    /\ \A i \in 1..Len(omitted), j \in 1..Len(resultsDiv) :
          ~Nearer(omitted[i].distance, resultsDiv[j].distance)

\* C13 (SpecHav): the distance measured from a to b is a number and the same
\* as from b to a, and the distance from a to a is 0.
C13_HaversineSymmetric ==
  dist.st = "done" =>
    /\ IsFinite(dist.ab) /\ dist.ab = dist.ba
    /\ dist.aa = Fin(0)

\* two points that differ in latitude and in longitude, a distance apart
C13_Witness ==
  /\ dist.st = "done"
  /\ dist.a[1] # dist.b[1] /\ dist.a[2] # dist.b[2]
  /\ IsFinite(dist.ab) /\ dist.ab.v > 0 /\ dist.ab = dist.ba

\* C14 (SpecFetch): the i-th wait of a call follows the i-th failed attempt,
\* which is attempt (i - 1) mod tries on endpoint (i - 1) div tries + 1, and
\* lasts 500 * 2^((i - 1) mod tries) ms.
C14_BackoffSequence ==
  \A i \in 1..Len(call.waits) :
    /\ i <= Len(log) /\ ~log[i].good
    /\ log[i].url = ((i - 1) \div call.tries) + 1
    /\ call.waits[i] = 500 * 2^((i - 1) % call.tries)

\* two endpoints that fail three times of three each
C14_Witness ==
  /\ call.n = 2 /\ call.tries = 3
  /\ call.waits = <<500, 1000, 2000, 500, 1000, 2000>>

Goods == {k \in 1..Len(log) : log[k].good}

\* C15 (SpecFetchFair): a call under way leads to a call returned or thrown,
\* which stays as it ended; none but the last attempt is answered well, and
\* the fetches issued are never more than n * tries.
C15_Terminates ==
  /\ (call.st \in {"fetch", "text", "wait"}) ~> (call.st \in {"returned", "thrown"})
  /\ [][call.st \in {"returned", "thrown"} => call' = call]_vars
  /\ [](/\ call.serial <= call.n * call.tries
        /\ Cardinality(Goods) <= 1
        /\ Goods # {} => Goods = {Len(log)} /\ call.st = "returned")

\* the call returns at the last attempt it had
C15_Witness ==
  /\ call.st = "returned" /\ call.n = 2 /\ call.tries = 3
  /\ call.serial = 6 /\ Goods = {6}

\* C16 (SpecOne): of an invocation, the requests issued are never more than
\* one ahead of the requests that failed, and none is pending once it has
\* ended; while geocoding it has asked the Overpass service nothing and made
\* at most 2 attempts per endpoint, 4 in all; it asks the Overpass service
\* only after the geocoding call returned a non-empty array, at most 3
\* attempts per endpoint, 6 in all.
C16_SequentialPipeline ==
  \A s \in Searches :
    LET f == fr[s]
    IN /\ f.serial - Len(f.waits) = IF f.st \in {"fetch", "text"} THEN 1 ELSE 0
       /\ inv[s].pc \notin {"geo", "overpass"} => f = IdleFrame
       /\ inv[s].pc = "geo" =>
            /\ "overpass" \notin inv[s].asked /\ inv[s].geocoded = "none"
            /\ f.n = 2 /\ f.serial <= 4
            /\ \A u \in 1..f.n : f.count[u] <= 2
       /\ inv[s].pc = "overpass" =>
            /\ f.n = 2 /\ f.serial <= 6
            /\ \A u \in 1..f.n : f.count[u] <= 3
       /\ "overpass" \in inv[s].asked =>
            "geocoding" \in inv[s].asked /\ inv[s].geocoded = "candidates"

\* the sixth request to the Overpass service is pending
C16_Witness ==
  \E s \in Searches :
    /\ inv[s].pc = "overpass" /\ fr[s].st = "fetch"
    /\ fr[s].serial = 6 /\ fr[s].count = <<3, 3>>

\* C17 (SpecOne): every card shown is of an item with a finite latitude, a
\* finite longitude and a finite distance.
C17_FiniteCoordinates ==
  \A k \in 1..Len(resultsDiv) :
    /\ IsFinite(resultsDiv[k].lat2) /\ IsFinite(resultsDiv[k].lon2)
    /\ IsFinite(resultsDiv[k].distance)

\* C18 (Spec): the cards of the results area are all of one invocation.
C18_CardsOfOneSearch ==
  \A i, j \in 1..Len(resultsDiv) : resultsDiv[i].by = resultsDiv[j].by

\* the first invocation has put its cards in the place of those the second,
\* started after it, had shown
C18_Witness ==
  /\ started = 2 /\ inv[2].cards > 0
  /\ Len(resultsDiv) = 2 /\ resultsDiv[1].by = 1 /\ statusP.by = 1

\* C19 (Spec): the results area holds cards only under the 'Found' status.
C19_CardsOnlyWhenFound ==
  resultsDiv # <<>> => statusP.text = "Found"

Failed == {k \in 1..Len(log) : ~log[k].good}

\* C20 (SpecFetch): every step of a call leaves as many waits as attempts
\* failed; an attempt that fails starts a wait; and the call throws, where it
\* has made attempts, only in the step that ends a wait, the last of
\* n * tries waits, one of 500 * 2^(tries - 1) ms.
C20_WaitAfterEveryFailure ==
  [][/\ Len(call'.waits) = Cardinality(Failed')
     /\ Len(log') > Len(log) /\ ~log'[Len(log')].good =>
          call'.st = "wait" /\ Len(call'.waits) = Len(call.waits) + 1
     /\ (call'.st = "thrown" /\ call.st # "thrown" /\ call'.serial > 0) =>
          /\ call.st = "wait"
          /\ Len(call.waits) = call.n * call.tries
          /\ call.waits[Len(call.waits)] = BaseBackoff * Pow2(call.tries - 1)]_vars

\* one endpoint, two tries: the call has thrown after the waits of 500 and
\* 1000 ms
C20_Witness ==
  /\ call.st = "thrown" /\ call.n = 1 /\ call.tries = 2
  /\ call.waits = <<500, 1000>>

====
